---- MODULE Spec2Model ----
(***************************************************************************)
(* Model of the "account activate" command                                 *)
(* (packages/cli/internal/pkg/cli/account_activate.go).                    *)
(*                                                                         *)
(* One run of accountActivateOpts.Execute is modelled as a sequential      *)
(* process whose position is pc.  Every collaborator call (STS, S3, ECR,   *)
(* home directory lookup, CDK) is one step whose result is chosen          *)
(* nondeterministically; the call and its result are appended to the       *)
(* history variable calls.  The CDK progress stream is a Go channel: a     *)
(* producer (the CDK client) sends events and closes it, the verbose       *)
(* branch of deployCoreInfrastructure ranges over it.                      *)
(*                                                                         *)
(* Strings are TLA+ strings and fmt.Sprintf is string concatenation.       *)
(* File paths are sequences of path elements (filepath.Join concatenates   *)
(* the element lists of clean paths).                                      *)
(***************************************************************************)
EXTENDS Naturals, Sequences, FiniteSets

VARIABLES
    flagBucket,      \* accountActivateVars.bucketName as given on the command line
    bucketName,      \* o.bucketName
    vpcId,           \* o.vpcId
    region,          \* o.region
    imageRefs,       \* o.imageRefs
    Verbose,         \* logging.Verbose
    pc,              \* position of Execute / deployCoreInfrastructure
    exists,          \* local "exists" of Execute
    remaining,       \* keys of o.imageRefs the range loop has not visited yet
    environmentVars, \* local "environmentVars" of Execute (<<>> until assembled)
    assembled,       \* TRUE once the environment list has been built
    homeDir,         \* local "homeDir" of deployCoreInfrastructure
    progressStream,  \* events in the channel, oldest first
    closed,          \* the producer closed the channel
    sent,            \* number of events the producer has sent
    lastEvent,       \* local "lastEvent" of deployCoreInfrastructure
    consumed,        \* history: the events the range loop has received
    logged,          \* history: the lines passed to log.Error().Msg
    calls,           \* history: the collaborator calls made, with their results
    ret              \* the error Execute returned ("none" while it runs)

vars == <<flagBucket, bucketName, vpcId, region, imageRefs, Verbose, pc, exists,
          remaining, environmentVars, assembled, homeDir, progressStream,
          closed, sent, lastEvent, consumed, logged, calls, ret>>

optsVars == <<flagBucket, vpcId, region, imageRefs, Verbose>>
streamVars == <<progressStream, closed, sent, lastEvent, consumed, logged>>

-----------------------------------------------------------------------------
(* Bounds of the model *)

MaxEvents == 3      \* events the producer sends in one run
MaxBuffered == 2    \* events the channel holds before the producer blocks

-----------------------------------------------------------------------------
(* Constants and data of the program *)

bucketPrefix == "agc"
cdkCoreDir == <<".agc", "cdk", "apps", "core">>

WesImageKey == "wes"
CromwellImageKey == "cromwell"
NextflowImageKey == "nextflow"
ExtraImageKey == "extra"

EnvImageKeys == {WesImageKey, CromwellImageKey, NextflowImageKey}
ImageKeys == EnvImageKeys \cup {ExtraImageKey}

nil == "nil"

\* ecr.ImageReference for a logical image name
ImageReference(k) ==
    [RegistryId |-> "acct-" \o k, Region |-> "us-west-2",
     ImageTag |-> "tag-" \o k, RepositoryName |-> "agc/" \o k]

\* the zero value of ecr.ImageReference
ZeroImageReference ==
    [RegistryId |-> "", Region |-> "", ImageTag |-> "", RepositoryName |-> ""]

\* environment.CommonImages
CommonImages == [k \in EnvImageKeys |-> ImageReference(k)]

\* the image tables a run is explored with: the three fixed keys, fewer, or more
ImageMaps == {[k \in D |-> ImageReference(k)] : D \in SUBSET ImageKeys}

\* o.imageRefs[k]: a Go map yields the zero value for a key it does not hold
Lookup(m, k) == IF k \in DOMAIN m THEN m[k] ELSE ZeroImageReference

BucketFlags == {"", "my-bucket"}
VpcFlags == {"", "vpc-123"}
Regions == {"us-east-1", "eu-west-2"}
Accounts == {"123456789012", "210987654321"}
HomeDirs == {<<"home", "user">>}

\* cdk.ProgressEvent values the CDK client may send
OkEvents ==
    { [Outputs |-> <<"line1", "line2">>, Err |-> nil],
      [Outputs |-> <<"line3">>, Err |-> nil] }
ErrEvents ==
    { [Outputs |-> <<"fail1", "fail2">>, Err |-> "errEvent1"],
      [Outputs |-> <<"fail3">>, Err |-> "errEvent2"] }
ProgressEvents == OkEvents \cup ErrEvents

\* the zero value of cdk.ProgressEvent
ZeroProgressEvent == [Outputs |-> <<>>, Err |-> nil]

-----------------------------------------------------------------------------
(* Pure functions *)

\* fmt.Sprintf("%t", b)
FormatBool(b) == IF b THEN "true" ELSE "false"

\* generateBucketName(account, region)
generateBucketName(account, reg) == bucketPrefix \o "-" \o account \o "-" \o reg

\* mutant of JoinPath: the home directory is left out of the path
JoinPath_DropsHome(dir, rel) == rel

\* filepath.Join(homeDir, cdkCoreDir) on clean paths
JoinPath(dir, rel) == dir \o rel

\* the four entries of one image, Execute lines 86-99
ImageEntries(name, ref) ==
    << "ECR_" \o name \o "_ACCOUNT_ID=" \o ref.RegistryId,
       "ECR_" \o name \o "_REGION=" \o ref.Region,
       "ECR_" \o name \o "_TAG=" \o ref.ImageTag,
       "ECR_" \o name \o "_REPOSITORY=" \o ref.RepositoryName >>

\* the optional last entry, Execute lines 101-103
VpcEntry(vpc) == IF vpc # "" THEN << "VPC_ID=" \o vpc >> ELSE << >>

\* mutant of BuildEnvironmentVars: the CROMWELL entries come before the WES ones
BuildEnvironmentVars_CromwellFirst(bucket, bucketExists, refs, vpc) ==
    << "AGC_BUCKET_NAME=" \o bucket,
       "CREATE_AGC_BUCKET=" \o FormatBool(~bucketExists) >>
    \o ImageEntries("CROMWELL", Lookup(refs, CromwellImageKey))
    \o ImageEntries("WES", Lookup(refs, WesImageKey))
    \o ImageEntries("NEXTFLOW", Lookup(refs, NextflowImageKey))
    \o VpcEntry(vpc)

\* mutant of BuildEnvironmentVars: the negation of "exists" is missing
BuildEnvironmentVars_NotNegated(bucket, bucketExists, refs, vpc) ==
    << "AGC_BUCKET_NAME=" \o bucket,
       "CREATE_AGC_BUCKET=" \o FormatBool(bucketExists) >>
    \o ImageEntries("WES", Lookup(refs, WesImageKey))
    \o ImageEntries("CROMWELL", Lookup(refs, CromwellImageKey))
    \o ImageEntries("NEXTFLOW", Lookup(refs, NextflowImageKey))
    \o VpcEntry(vpc)

\* the environment list, Execute lines 82-103
BuildEnvironmentVars(bucket, bucketExists, refs, vpc) ==
    << "AGC_BUCKET_NAME=" \o bucket,
       "CREATE_AGC_BUCKET=" \o FormatBool(~bucketExists) >>
    \o ImageEntries("WES", Lookup(refs, WesImageKey))
    \o ImageEntries("CROMWELL", Lookup(refs, CromwellImageKey))
    \o ImageEntries("NEXTFLOW", Lookup(refs, NextflowImageKey))
    \o VpcEntry(vpc)

\* mutant of ErrorLogLines: the error event's own outputs are logged
ErrorLogLines_OwnOutputs(last, event) == event.Outputs

\* what the error branch of the range loop logs, lines 131-133
ErrorLogLines(last, event) == last.Outputs

\* a collaborator call and its result
Call(op, key, arg, res, err) ==
    [op |-> op, key |-> key, arg |-> arg, res |-> res, err |-> err]

-----------------------------------------------------------------------------
(* Initial state: newAccountActivateOpts *)

Init ==
    /\ flagBucket \in BucketFlags
    /\ bucketName = flagBucket
    /\ vpcId \in VpcFlags
    /\ region \in Regions
    /\ imageRefs \in ImageMaps
    /\ Verbose \in BOOLEAN
    /\ pc = "resolveBucket"
    /\ exists = FALSE
    /\ remaining = DOMAIN imageRefs
    /\ environmentVars = <<>>
    /\ assembled = FALSE
    /\ homeDir = <<>>
    /\ progressStream = <<>>
    /\ closed = FALSE
    /\ sent = 0
    /\ lastEvent = ZeroProgressEvent
    /\ consumed = <<>>
    /\ logged = <<>>
    /\ calls = <<>>
    /\ ret = "none"

-----------------------------------------------------------------------------
(* Execute, lines 62-106 *)

\* mutant of NeedsDefaultBucket: a name is generated even when one was supplied
NeedsDefaultBucket_Always(name) == TRUE

\* line 63: a bucket name must be generated
NeedsDefaultBucket(name) == name = ""

\* line 63 false: the supplied name is kept
KeepSuppliedBucket ==
    /\ pc = "resolveBucket"
    /\ ~NeedsDefaultBucket(bucketName)
    /\ pc' = "bucketExists"
    /\ UNCHANGED <<optsVars, bucketName, exists, remaining, environmentVars,
                   assembled, homeDir, streamVars, calls, ret>>

\* lines 64-68 and 108-114: GetAccount succeeds, the name is generated
GenerateDefaultBucket ==
    /\ pc = "resolveBucket"
    /\ NeedsDefaultBucket(bucketName)
    /\ \E account \in Accounts :
          /\ calls' = Append(calls, Call("GetAccount", "", <<>>, account, nil))
          /\ bucketName' = generateBucketName(account, region)
    /\ pc' = "bucketExists"
    /\ UNCHANGED <<optsVars, exists, remaining, environmentVars, assembled,
                   homeDir, streamVars, ret>>

\* lines 109-112 and 65-67: GetAccount fails
GetAccountFails ==
    /\ pc = "resolveBucket"
    /\ NeedsDefaultBucket(bucketName)
    /\ calls' = Append(calls, Call("GetAccount", "", <<>>, "", "errSts"))
    /\ ret' = "errSts"
    /\ pc' = "done"
    /\ UNCHANGED <<optsVars, bucketName, exists, remaining, environmentVars,
                   assembled, homeDir, streamVars>>

\* line 71: BucketExists answers
BucketExists ==
    /\ pc = "bucketExists"
    /\ \E answer \in BOOLEAN :
          /\ calls' = Append(calls, Call("BucketExists", "", <<bucketName>>, answer, nil))
          /\ exists' = answer
    /\ pc' = "verifyImages"
    /\ UNCHANGED <<optsVars, bucketName, remaining, environmentVars, assembled,
                   homeDir, streamVars, ret>>

\* mutant of BucketExistsFails: the error is dropped and Execute goes on
BucketExistsFails_Swallowed ==
    /\ pc = "bucketExists"
    /\ calls' = Append(calls, Call("BucketExists", "", <<bucketName>>, FALSE, "errS3"))
    /\ exists' = FALSE
    /\ pc' = "verifyImages"
    /\ UNCHANGED <<optsVars, bucketName, remaining, environmentVars, assembled,
                   homeDir, streamVars, ret>>

\* lines 71-74: BucketExists fails
BucketExistsFails ==
    /\ pc = "bucketExists"
    /\ calls' = Append(calls, Call("BucketExists", "", <<bucketName>>, FALSE, "errS3"))
    /\ ret' = "errS3"
    /\ pc' = "done"
    /\ UNCHANGED <<optsVars, bucketName, exists, remaining, environmentVars,
                   assembled, homeDir, streamVars>>

\* the entries the range loop of line 76 may visit next: Go fixes no order
NextImageKeys(todo) == todo

\* lines 76-77: the next entry of the map is verified
VerifyImageExists ==
    /\ pc = "verifyImages"
    /\ \E k \in NextImageKeys(remaining) :
          /\ calls' = Append(calls, Call("VerifyImageExists", k, <<imageRefs[k]>>, "", nil))
          /\ remaining' = remaining \ {k}
    /\ UNCHANGED <<optsVars, bucketName, pc, exists, environmentVars, assembled,
                   homeDir, streamVars, ret>>

\* mutant of VerifyImageFails: the loop goes on after a failed verification
VerifyImageFails_Continues ==
    /\ pc = "verifyImages"
    /\ \E k \in remaining :
          /\ calls' = Append(calls, Call("VerifyImageExists", k, <<imageRefs[k]>>, "", "errEcr"))
          /\ remaining' = remaining \ {k}
    /\ UNCHANGED <<optsVars, bucketName, pc, exists, environmentVars, assembled,
                   homeDir, streamVars, ret>>

\* lines 77-79: the next entry of the map fails verification
VerifyImageFails ==
    /\ pc = "verifyImages"
    /\ \E k \in NextImageKeys(remaining) :
          /\ calls' = Append(calls, Call("VerifyImageExists", k, <<imageRefs[k]>>, "", "errEcr"))
          /\ remaining' = remaining \ {k}
    /\ ret' = "errEcr"
    /\ pc' = "done"
    /\ UNCHANGED <<optsVars, bucketName, exists, environmentVars, assembled,
                   homeDir, streamVars>>

\* mutant of ImagesVerified: the environment is assembled before the loop ends
ImagesVerified_Always(todo) == TRUE

\* mutant of ImagesVerified: the loop stops one entry early
ImagesVerified_OffByOne(todo) == Cardinality(todo) <= 1

\* line 76: the range loop is over
ImagesVerified(todo) == todo = {}

\* lines 82-103: the environment list is assembled
AssembleEnvironment ==
    /\ pc = "verifyImages"
    /\ ImagesVerified(remaining)
    /\ environmentVars' = BuildEnvironmentVars(bucketName, exists, imageRefs, vpcId)
    /\ assembled' = TRUE
    /\ pc' = "homeDir"
    /\ UNCHANGED <<optsVars, bucketName, exists, remaining, homeDir, streamVars,
                   calls, ret>>

-----------------------------------------------------------------------------
(* deployCoreInfrastructure, lines 116-142 *)

\* line 117: the home directory is found
DetermineHomeDir ==
    /\ pc = "homeDir"
    /\ \E dir \in HomeDirs :
          /\ calls' = Append(calls, Call("DetermineHomeDir", "", <<>>, dir, nil))
          /\ homeDir' = dir
    /\ pc' = "deployApp"
    /\ UNCHANGED <<optsVars, bucketName, exists, remaining, environmentVars,
                   assembled, streamVars, ret>>

\* lines 117-120: the home directory lookup fails
DetermineHomeDirFails ==
    /\ pc = "homeDir"
    /\ calls' = Append(calls, Call("DetermineHomeDir", "", <<>>, <<>>, "errHomeDir"))
    /\ ret' = "errHomeDir"
    /\ pc' = "done"
    /\ UNCHANGED <<optsVars, bucketName, exists, remaining, environmentVars,
                   assembled, homeDir, streamVars>>

\* line 127: which branch consumes the stream
ProgressBranch(verbose) == IF verbose THEN "range" ELSE "display"

\* lines 122-123: DeployApp returns the progress stream
DeployApp ==
    /\ pc = "deployApp"
    /\ calls' = Append(calls, Call("DeployApp", "",
                       <<JoinPath(homeDir, cdkCoreDir), environmentVars>>, "", nil))
    /\ pc' = ProgressBranch(Verbose)
    /\ UNCHANGED <<optsVars, bucketName, exists, remaining, environmentVars,
                   assembled, homeDir, streamVars, ret>>

\* lines 123-126: DeployApp fails
DeployAppFails ==
    /\ pc = "deployApp"
    /\ calls' = Append(calls, Call("DeployApp", "",
                       <<JoinPath(homeDir, cdkCoreDir), environmentVars>>, "", "errCdk"))
    /\ ret' = "errCdk"
    /\ pc' = "done"
    /\ UNCHANGED <<optsVars, bucketName, exists, remaining, environmentVars,
                   assembled, homeDir, streamVars>>

\* line 139: DisplayProgress consumes the stream and returns its result
DisplayProgress ==
    /\ pc = "display"
    /\ \E e \in {nil, "errDisplay"} :
          /\ calls' = Append(calls, Call("DisplayProgress", "",
                             <<"Activating account...">>, "", e))
          /\ ret' = e
    /\ pc' = "done"
    /\ UNCHANGED <<optsVars, bucketName, exists, remaining, environmentVars,
                   assembled, homeDir, streamVars>>

\* the CDK client sends a progress event on the channel
SendEvent ==
    /\ pc = "range"
    /\ ~closed
    /\ sent < MaxEvents
    /\ Len(progressStream) < MaxBuffered
    /\ \E e \in ProgressEvents : progressStream' = Append(progressStream, e)
    /\ sent' = sent + 1
    /\ UNCHANGED <<optsVars, bucketName, pc, exists, remaining, environmentVars,
                   assembled, homeDir, closed, lastEvent, consumed, logged,
                   calls, ret>>

\* the CDK client closes the channel
CloseStream ==
    /\ pc = "range"
    /\ ~closed
    /\ closed' = TRUE
    /\ UNCHANGED <<optsVars, bucketName, pc, exists, remaining, environmentVars,
                   assembled, homeDir, progressStream, sent, lastEvent, consumed,
                   logged, calls, ret>>

\* mutant of IsErrorEvent: the error of an event is never looked at
IsErrorEvent_Never(event) == FALSE

\* line 130: the received event ends the loop
IsErrorEvent(event) == event.Err # nil

\* lines 129, 136: an event without error is received and remembered
ReceiveEvent ==
    /\ pc = "range"
    /\ progressStream # <<>>
    /\ ~IsErrorEvent(Head(progressStream))
    /\ lastEvent' = Head(progressStream)
    /\ consumed' = Append(consumed, Head(progressStream))
    /\ progressStream' = Tail(progressStream)
    /\ UNCHANGED <<optsVars, bucketName, pc, exists, remaining, environmentVars,
                   assembled, homeDir, closed, sent, logged, calls, ret>>

\* lines 129-135: an event with an error is received, the last outputs are
\* logged and the error is returned
ReceiveError ==
    /\ pc = "range"
    /\ progressStream # <<>>
    /\ IsErrorEvent(Head(progressStream))
    /\ logged' = logged \o ErrorLogLines(lastEvent, Head(progressStream))
    /\ consumed' = Append(consumed, Head(progressStream))
    /\ progressStream' = Tail(progressStream)
    /\ ret' = Head(progressStream).Err
    /\ pc' = "done"
    /\ UNCHANGED <<optsVars, bucketName, exists, remaining, environmentVars,
                   assembled, homeDir, closed, sent, lastEvent, calls>>

\* lines 129, 141: the channel is closed and drained, the loop ends
StreamClosed ==
    /\ pc = "range"
    /\ progressStream = <<>>
    /\ closed
    /\ ret' = nil
    /\ pc' = "done"
    /\ UNCHANGED <<optsVars, bucketName, exists, remaining, environmentVars,
                   assembled, homeDir, streamVars, calls>>

-----------------------------------------------------------------------------
(* Specifications *)

\* the steps of Execute itself
ExecuteStep ==
    \/ KeepSuppliedBucket
    \/ GenerateDefaultBucket
    \/ GetAccountFails
    \/ BucketExists
    \/ BucketExistsFails
    \/ VerifyImageExists
    \/ VerifyImageFails
    \/ AssembleEnvironment
    \/ DetermineHomeDir
    \/ DetermineHomeDirFails
    \/ DeployApp
    \/ DeployAppFails
    \/ DisplayProgress
    \/ ReceiveEvent
    \/ ReceiveError
    \/ StreamClosed

\* the steps of the CDK client feeding the channel
ProducerStep ==
    \/ SendEvent
    \/ CloseStream

Next == ExecuteStep \/ ProducerStep

Spec == Init /\ [][Next]_vars

\* one run with the fixed image table, for the termination property
LiveInit ==
    /\ Init
    /\ vpcId = ""
    /\ region = "us-east-1"
    /\ imageRefs = CommonImages

\* Execute is a running goroutine: a step it can take is eventually taken.
\* Nothing is assumed of the producer.
LiveSpec == LiveInit /\ [][Next]_vars /\ WF_vars(ExecuteStep)

-----------------------------------------------------------------------------
(* Reading the history of calls *)

CallIdx(op) == {i \in 1..Len(calls) : calls[i].op = op}

Called(op) == CallIdx(op) # {}

\* the calls of op that returned no error
OkIdx(op) == {i \in CallIdx(op) : calls[i].err = nil}

\* position of a collaborator in the order Execute calls them
Rank(op) ==
    CASE op = "GetAccount" -> 1
      [] op = "BucketExists" -> 2
      [] op = "VerifyImageExists" -> 3
      [] op = "DetermineHomeDir" -> 4
      [] op = "DeployApp" -> 5
      [] op = "DisplayProgress" -> 6

\* positions of the events with an error among the consumed ones
ErrIdx == {i \in 1..Len(consumed) : consumed[i].Err # nil}

\* positions of the events without error among the consumed ones
OkEventIdx == {i \in 1..Len(consumed) : consumed[i].Err = nil}

\* the largest element of a non-empty set of numbers
Max(S) == CHOOSE x \in S : \A y \in S : y <= x

\* the smallest element of a non-empty set of numbers
Min(S) == CHOOSE x \in S : \A y \in S : x <= y

-----------------------------------------------------------------------------
(* Claims *)

\* C1: the bucket name given to BucketExists and written to AGC_BUCKET_NAME is
\* the supplied name verbatim when one was supplied, with no GetAccount call;
\* otherwise GetAccount is called exactly once, before BucketExists, and the
\* name is agc-<accountId>-<region> of the account id it returned.
C1_BucketNameResolved ==
    \A i \in CallIdx("BucketExists") :
        /\ flagBucket # "" =>
              /\ calls[i].arg = <<flagBucket>>
              /\ ~Called("GetAccount")
        /\ flagBucket = "" =>
              /\ Cardinality(CallIdx("GetAccount")) = 1
              /\ \A j \in CallIdx("GetAccount") :
                    /\ j < i
                    /\ calls[i].arg = <<"agc-" \o calls[j].res \o "-" \o region>>
        /\ assembled => environmentVars[1] = "AGC_BUCKET_NAME=" \o calls[i].arg[1]

C1_Witness ==
    /\ flagBucket = ""
    /\ assembled
    /\ environmentVars[1] = "AGC_BUCKET_NAME=agc-123456789012-us-east-1"
    /\ \E i \in CallIdx("BucketExists") : calls[i].arg = <<"agc-123456789012-us-east-1">>

\* C2: once one of the wes, cromwell, nextflow images has failed verification,
\* the run is over, no environment list has been assembled and DeployApp has
\* not been called.
C2_FailedImageStopsActivation ==
    (\E i \in CallIdx("VerifyImageExists") :
        calls[i].key \in EnvImageKeys /\ calls[i].err # nil)
    => /\ pc = "done"
       /\ ~assembled
       /\ environmentVars = <<>>
       /\ ~Called("DeployApp")

C2_Witness ==
    /\ pc = "done"
    /\ Cardinality(OkIdx("VerifyImageExists")) = 2
    /\ \E i \in CallIdx("VerifyImageExists") :
          calls[i].key = NextflowImageKey /\ calls[i].err # nil

\* C3: the environment list given to DeployApp has 14 entries without a VPC
\* id and 15 with one, in the order AGC_BUCKET_NAME, CREATE_AGC_BUCKET, the
\* ACCOUNT_ID, REGION, TAG, REPOSITORY entries of WES, CROMWELL, NEXTFLOW, and
\* VPC_ID last exactly when a VPC id was supplied, whatever the order in which
\* the image map was iterated.
C3_EnvironmentOrder ==
    \A i \in CallIdx("DeployApp") :
        LET env == calls[i].arg[2]
            wes == Lookup(imageRefs, "wes")
            cromwell == Lookup(imageRefs, "cromwell")
            nextflow == Lookup(imageRefs, "nextflow")
        IN  /\ Len(env) = IF vpcId = "" THEN 14 ELSE 15
            /\ env[1] = "AGC_BUCKET_NAME=" \o bucketName
            /\ env[2] \in {"CREATE_AGC_BUCKET=true", "CREATE_AGC_BUCKET=false"}
            /\ env[3] = "ECR_WES_ACCOUNT_ID=" \o wes.RegistryId
            /\ env[4] = "ECR_WES_REGION=" \o wes.Region
            /\ env[5] = "ECR_WES_TAG=" \o wes.ImageTag
            /\ env[6] = "ECR_WES_REPOSITORY=" \o wes.RepositoryName
            /\ env[7] = "ECR_CROMWELL_ACCOUNT_ID=" \o cromwell.RegistryId
            /\ env[8] = "ECR_CROMWELL_REGION=" \o cromwell.Region
            /\ env[9] = "ECR_CROMWELL_TAG=" \o cromwell.ImageTag
            /\ env[10] = "ECR_CROMWELL_REPOSITORY=" \o cromwell.RepositoryName
            /\ env[11] = "ECR_NEXTFLOW_ACCOUNT_ID=" \o nextflow.RegistryId
            /\ env[12] = "ECR_NEXTFLOW_REGION=" \o nextflow.Region
            /\ env[13] = "ECR_NEXTFLOW_TAG=" \o nextflow.ImageTag
            /\ env[14] = "ECR_NEXTFLOW_REPOSITORY=" \o nextflow.RepositoryName
            /\ vpcId # "" => env[15] = "VPC_ID=" \o vpcId

C3_Witness ==
    /\ Called("DeployApp")
    /\ vpcId = "vpc-123"
    /\ Len(environmentVars) = 15
    /\ calls[Min(CallIdx("VerifyImageExists") \cup {Len(calls)})].key = NextflowImageKey
    /\ calls[Max(CallIdx("VerifyImageExists") \cup {1})].key = WesImageKey

\* C4: in an assembled environment list the CREATE_AGC_BUCKET entry is "true"
\* exactly when BucketExists returned false and "false" exactly when it
\* returned true, and no call of Execute creates the bucket.
C4_CreateBucketFlag ==
    /\ assembled =>
          \A i \in CallIdx("BucketExists") :
             /\ environmentVars[2] = "CREATE_AGC_BUCKET=true" <=> calls[i].res = FALSE
             /\ environmentVars[2] = "CREATE_AGC_BUCKET=false" <=> calls[i].res = TRUE
    /\ \A i \in 1..Len(calls) :
          calls[i].op \in {"GetAccount", "BucketExists", "VerifyImageExists",
                           "DetermineHomeDir", "DeployApp", "DisplayProgress"}

C4_Witness ==
    /\ assembled
    /\ environmentVars[2] = "CREATE_AGC_BUCKET=true"
    /\ \E i \in CallIdx("BucketExists") : calls[i].res = FALSE /\ calls[i].err = nil

\* the calls before DeployApp all succeeded and the run is past them
PreDeploySucceeded ==
    /\ pc \in {"range", "display", "done"}
    /\ \A i \in 1..Len(calls) : Rank(calls[i].op) < 5 => calls[i].err = nil

\* C5: DeployApp is never called twice, and in a run where bucket resolution,
\* the bucket check, every image verification and the home directory lookup
\* succeed it is called exactly once, with <home dir>/.agc/cdk/apps/core and
\* the assembled environment list.
C5_DeployAppOnce ==
    /\ Cardinality(CallIdx("DeployApp")) <= 1
    /\ PreDeploySucceeded =>
          /\ Cardinality(CallIdx("DeployApp")) = 1
          /\ \A i \in CallIdx("DeployApp") :
                /\ calls[i].arg[1] = homeDir \o <<".agc", "cdk", "apps", "core">>
                /\ calls[i].arg[2] = environmentVars
                /\ assembled
                /\ homeDir \in HomeDirs

C5_Witness ==
    /\ pc = "done"
    /\ ret = nil
    /\ \E i \in CallIdx("DeployApp") :
          calls[i].arg[1] = <<"home", "user", ".agc", "cdk", "apps", "core">>

\* C6: the collaborators are called in the order GetAccount (only without a
\* supplied bucket), BucketExists, VerifyImageExists, DeployApp; a call that
\* returned an error is the last call of the run, the run has ended and
\* returns that error unchanged; no call is made twice.
C6_FirstErrorEndsRun ==
    /\ \A i \in 1..(Len(calls) - 1) :
          /\ Rank(calls[i].op) <= Rank(calls[i + 1].op)
          /\ calls[i].op = calls[i + 1].op => calls[i].op = "VerifyImageExists"
          /\ calls[i].err = nil
    /\ Cardinality({calls[i].key : i \in CallIdx("VerifyImageExists")})
          = Cardinality(CallIdx("VerifyImageExists"))
    /\ Called("GetAccount") => flagBucket = ""
    /\ (Called("BucketExists") /\ flagBucket = "") => calls[1].op = "GetAccount"
    /\ (calls # <<>> /\ calls[Len(calls)].err # nil) =>
          /\ pc = "done"
          /\ ret = calls[Len(calls)].err

C6_Witness ==
    /\ pc = "done"
    /\ ret = "errS3"
    /\ Len(calls) = 2
    /\ calls[1].op = "GetAccount"
    /\ calls[2].op = "BucketExists"
    /\ calls[2].err = "errS3"

\* C7: DeployApp is called only after every entry of the image map has been
\* verified once, successfully; a failed verification is the last one of the
\* run and Execute returns its error.
C7_AllOrNothingVerification ==
    /\ \A d \in CallIdx("DeployApp") :
          /\ {calls[i].key : i \in {j \in OkIdx("VerifyImageExists") : j < d}}
                = DOMAIN imageRefs
          /\ Cardinality(CallIdx("VerifyImageExists")) = Cardinality(DOMAIN imageRefs)
          /\ \A i \in CallIdx("VerifyImageExists") : calls[i].arg = <<imageRefs[calls[i].key]>>
    /\ \A i \in CallIdx("VerifyImageExists") :
          calls[i].err # nil =>
              /\ \A j \in CallIdx("VerifyImageExists") : j <= i
              /\ pc = "done"
              /\ ret = calls[i].err

C7_Witness ==
    /\ DOMAIN imageRefs = ImageKeys
    /\ pc = "done"
    /\ ret = "errEcr"
    /\ Cardinality(CallIdx("VerifyImageExists")) = 2
    /\ remaining # {}

\* C8: in verbose mode nothing is logged while no error event was received;
\* when one is received the log holds exactly the output lines, in order, of
\* the most recent event without error received before it (nothing if there
\* is none) and the error returned is that event's.
C8_ErrorReplaysLastOutputs ==
    /\ ErrIdx = {} => logged = <<>>
    /\ ErrIdx # {} =>
          LET e == Min(ErrIdx)
              before == {i \in OkEventIdx : i < e}
          IN  /\ logged = IF before = {} THEN <<>> ELSE consumed[Max(before)].Outputs
              /\ ret = consumed[e].Err
              /\ pc = "done"

C8_Witness ==
    /\ Len(consumed) = 3
    /\ consumed[1].Outputs = <<"line3">>
    /\ consumed[3].Err = "errEvent1"
    /\ logged = <<"line1", "line2">>

\* the verbose loop has been entered
Ranged == Verbose /\ OkIdx("DeployApp") # {}

\* the consumption part of C9 that holds in every state
C9_Safe ==
    /\ \A i \in ErrIdx : i = Len(consumed)
    /\ (Ranged /\ pc = "done") =>
          /\ ErrIdx = {} => (ret = nil /\ closed /\ progressStream = <<>>)
          /\ ErrIdx # {} => ret = consumed[Min(ErrIdx)].Err
    /\ (Ranged /\ pc = "range") => (ErrIdx = {} /\ ret = "none")

\* C9: in verbose mode the loop receives events until the stream is closed and
\* drained or an event carries an error: once the producer has closed the
\* stream or queued an error event the call returns, with nil when no error
\* event was received and with the first error event's error otherwise, and
\* no event is received after an error event.
C9_ConsumesUntilCloseOrError ==
    /\ []C9_Safe
    /\ (pc = "range" /\ (closed \/ \E i \in 1..Len(progressStream) :
                                        progressStream[i].Err # nil))
          ~> (pc = "done")

C9_Witness ==
    /\ Ranged
    /\ pc = "done"
    /\ Len(consumed) = 2
    /\ ret = "errEvent2"
    /\ progressStream # <<>>

\* the reference written to the environment list for key k was verified
\* successfully before DeployApp call d
VerifiedBefore(k, d) ==
    \E i \in OkIdx("VerifyImageExists") :
        i < d /\ calls[i].arg = <<Lookup(imageRefs, k)>>

\* C10 as stated: whenever DeployApp is called, the references looked up
\* under wes, cromwell and nextflow have all been verified before, also when
\* the image map lacks one of the three keys.
C10_Original ==
    \A d \in CallIdx("DeployApp") : \A k \in EnvImageKeys : VerifiedBefore(k, d)

\* C10 amended: whenever DeployApp is called, the reference of each of the
\* keys wes, cromwell, nextflow that the image map holds has been verified
\* before, whatever other keys the map holds or lacks.
C10_PresentImagesVerified ==
    \A d \in CallIdx("DeployApp") :
        \A k \in EnvImageKeys \cap DOMAIN imageRefs : VerifiedBefore(k, d)

C10_Witness ==
    /\ Called("DeployApp")
    /\ DOMAIN imageRefs = {CromwellImageKey, NextflowImageKey, ExtraImageKey}
    /\ environmentVars[3] = "ECR_WES_ACCOUNT_ID="

====
